---- MODULE Spec2Model ----
(***************************************************************************)
(* The search panel (components/MiddlePanel.tsx, kept in                   *)
(* src/app/api/helloNextJs/route.ts): its React state, its two mount       *)
(* effects, its event handlers and the promise chain of performSearch.     *)
(*                                                                         *)
(* A JavaScript string the code inspects or encodes (the query, a talk's   *)
(* url) is a sequence of one-character strings.  A string the code only    *)
(* builds and stores (a log line, an error message) is the sequence of the *)
(* pieces it is concatenated from.  A value of type `T | null` is None     *)
(* (null) or Some(v).                                                      *)
(***************************************************************************)
EXTENDS Integers, Sequences, FiniteSets, TLC

(* ------------------------------ bounds -------------------------------- *)

\* Search requests issued in one run of the model (mount search included).
MaxSearches == 2

\* Longest text after the talk-page prefix in the URLs generateEmbedUrl is
\* tried on.
MaxTail == 2

(* --------------------------- values of the code ------------------------ *)

None == <<>>

Some(v) == <<v>>

\* Math.floor(Math.random() * 18): the draws are 0 .. KeywordDraws - 1.
KeywordDraws == 18

TedAi == <<"T","E","D"," ","A","I">>

TopicKeywords ==
  << <<"p","o","v","e","r","t","y">>,
     <<"h","u","n","g","e","r">>,
     <<"h","e","a","l","t","h">>,
     <<"e","d","u","c","a","t","i","o","n">>,
     <<"g","e","n","d","e","r">>,
     <<"w","a","t","e","r">>,
     <<"e","n","e","r","g","y">>,
     <<"w","o","r","k">>,
     <<"i","n","d","u","s","t","r","y">>,
     <<"i","n","e","q","u","a","l","i","t","y">>,
     <<"c","i","t","y">>,
     <<"c","o","n","s","u","m","p","t","i","o","n">>,
     <<"c","l","i","m","a","t","e">>,
     <<"o","c","e","a","n">>,
     <<"l","a","n","d">>,
     <<"p","e","a","c","e">>,
     <<"p","a","r","t","n","e","r","s","h","i","p">> >>

determineInitialKeyword_Clamped(randomNumber) ==
  IF randomNumber = 0 THEN TedAi
  ELSE TopicKeywords[IF randomNumber < 17 THEN randomNumber ELSE 16]

\* determineInitialKeyword with its random number made a parameter.
determineInitialKeyword(randomNumber) ==
  IF randomNumber = 0 THEN TedAi ELSE TopicKeywords[randomNumber]

TedPrefix ==
  <<"h","t","t","p","s",":","/","/","w","w","w",".","t","e","d",".","c","o","m",
    "/","t","a","l","k","s","/">>

EmbedPrefix ==
  <<"h","t","t","p","s",":","/","/","e","m","b","e","d",".","t","e","d",".",
    "c","o","m","/","t","a","l","k","s","/">>

EmbedSuffix == <<"?","s","u","b","t","i","t","l","e","=","e","n">>

\* The regular expression's class [\w_]: letters, digits and the underscore.
WordChars ==
  {"a","b","c","d","e","f","g","h","i","j","k","l","m","n","o","p","q","r","s",
   "t","u","v","w","x","y","z","A","B","C","D","E","F","G","H","I","J","K","L",
   "M","N","O","P","Q","R","S","T","U","V","W","X","Y","Z","0","1","2","3","4",
   "5","6","7","8","9","_"}

\* The characters encodeURIComponent leaves as they are.
UriUnreserved == (WordChars \ {"_"}) \cup {"-","_",".","!","~","*","'","(",")"}

\* The escape of each other character the model's query strings hold.
UriEscape(c) ==
  CASE c = " " -> <<"%","2","0">>
    [] c = "&" -> <<"%","2","6">>
    [] c = "/" -> <<"%","2","F">>
    [] c = "?" -> <<"%","3","F">>
    [] c = "=" -> <<"%","3","D">>
    [] c = "#" -> <<"%","2","3">>
    [] c = "%" -> <<"%","2","5">>
    [] c = "+" -> <<"%","2","B">>
    [] c = ":" -> <<"%","3","A">>

RECURSIVE encodeURIComponent(_)
encodeURIComponent(s) ==
  IF s = <<>> THEN <<>>
  ELSE (IF Head(s) \in UriUnreserved THEN <<Head(s)>> ELSE UriEscape(Head(s)))
       \o encodeURIComponent(Tail(s))

\* The random numbers the model draws for the mount effect.
DrawSample == {0}

\* Every value of Math.floor(Math.random() * 18).
Draws == 0..(KeywordDraws - 1)

\* The texts the user types into the input (setQuery's argument).
TypedTexts == { <<>>, <<"a","&","b">> }

\* The talks the backend serves, best match first.
Catalogue ==
  << [title |-> "Talk A", url |-> TedPrefix \o <<"a","_","1">>, sdg_tags |-> <<"sdg1">>],
     [title |-> "Talk B", url |-> <<"h","t","t","p",":","/","/","b">>, sdg_tags |-> <<>>] >>

\* The lists a search answers with: the best k talks of the catalogue, or the
\* best talk twice.
ResultLists ==
  { SubSeq(Catalogue, 1, k) : k \in 0..Len(Catalogue) }
  \cup { <<Catalogue[1], Catalogue[1]>> }

\* A response body: an array of talks, or something that is not an array.
ArrayBody(items) == [isArray |-> TRUE, items |-> items]

NonArrayBody == [isArray |-> FALSE, items |-> <<>>]

Bodies == { ArrayBody(l) : l \in ResultLists } \cup { NonArrayBody }

\* What the transport can answer: status 0 stands for no answer at all (a
\* network error); the body of an answer that is not 200 is one fixed list.
Responses ==
  { [status |-> 200, data |-> b] : b \in Bodies }
  \cup { [status |-> s, data |-> ArrayBody(<<Catalogue[1]>>)] :
           s \in {204, 404} }
  \cup { [status |-> 0, data |-> NonArrayBody] }

StatusText(status) ==
  CASE status = 200 -> "OK"
    [] status = 204 -> "No Content"
    [] status = 404 -> "Not Found"
    [] OTHER -> ""

(* ------------------- generateEmbedUrl and its arguments ---------------- *)

\* A JavaScript value: its typeof-like tag, its characters when it is a
\* string, its number when it is a number.
JsUndefined == [type |-> "undefined", chars |-> <<>>, num |-> 0]

JsNull == [type |-> "null", chars |-> <<>>, num |-> 0]

JsString(chars) == [type |-> "string", chars |-> chars, num |-> 0]

JsNumber(n) == [type |-> "number", chars |-> <<>>, num |-> n]

JsObject == [type |-> "object", chars |-> <<>>, num |-> 0]

\* Stands in embedOutput for "generateEmbedUrl has not returned yet".
NotCalled == [type |-> "not called", chars |-> <<>>, num |-> 0]

\* !v
Falsy(v) ==
  \/ v.type \in {"undefined", "null"}
  \/ v.type = "string" /\ v.chars = <<>>
  \/ v.type = "number" /\ v.num = 0

\* v ?? ""
OrEmptyString(v) == IF v.type \in {"undefined", "null"} THEN JsString(<<>>) ELSE v

\* The longest run of word characters of s that starts at position j.
RECURSIVE WordRun(_, _)
WordRun(s, j) ==
  IF j <= Len(s) /\ s[j] \in WordChars THEN <<s[j]>> \o WordRun(s, j + 1) ELSE <<>>

\* The regular expression tried at position i of s, then at i + 1, ...:
\* Some(group 1) of the first match, None when there is none.
RECURSIVE TedMatchFrom(_, _)
TedMatchFrom(s, i) ==
  IF i + Len(TedPrefix) > Len(s) THEN None
  ELSE IF SubSeq(s, i, i + Len(TedPrefix) - 1) = TedPrefix
          /\ s[i + Len(TedPrefix)] \in WordChars
       THEN Some(WordRun(s, i + Len(TedPrefix)))
       ELSE TedMatchFrom(s, i + 1)

TedMatch_Anchored(s) ==
  IF Len(TedPrefix) < Len(s) /\ SubSeq(s, 1, Len(TedPrefix)) = TedPrefix
     /\ s[1 + Len(TedPrefix)] \in WordChars
  THEN Some(WordRun(s, 1 + Len(TedPrefix)))
  ELSE None

\* url.match(tedRegex): the expression is searched for anywhere in the url.
TedMatch(s) == TedMatchFrom(s, 1)

generateEmbedUrl(url) ==
  IF Falsy(url) \/ url.type # "string" THEN OrEmptyString(url)
  ELSE LET match == TedMatch(url.chars)
       IN  IF match # None
           THEN JsString(EmbedPrefix \o match[1] \o EmbedSuffix)
           ELSE url

\* Every sequence over S of length at most n.
SeqsUpTo(S, n) == UNION { [1..k -> S] : k \in 0..n }

HttpTedPrefix ==
  <<"h","t","t","p",":","/","/","w","w","w",".","t","e","d",".","c","o","m",
    "/","t","a","l","k","s","/">>

\* The URLs generateEmbedUrl is tried on: nothing or a stray character, then
\* nothing, the talk-page prefix, the prefix over http, or the prefix twice
\* with a hyphen between, then a short tail.
EmbedStrings ==
  { pre \o head \o tail :
      pre \in { <<>>, <<"x">> },
      head \in { <<>>, TedPrefix, HttpTedPrefix, TedPrefix \o <<"-">> \o TedPrefix },
      tail \in SeqsUpTo({"a", "_", "-", "/"}, MaxTail) }

EmbedInputs ==
  { JsString(u) : u \in EmbedStrings }
  \cup { JsUndefined, JsNull, JsNumber(0), JsNumber(5), JsObject }

(* ------------------------------ state ---------------------------------- *)

VARIABLES
  mounted,          \* the mount effects have run
  initialKeyword,   \* initialKeyword.current
  query, error, loading, selectedTalk, logs, errorDetails, greeting,
  talks,            \* the talk context's list
  inflight,         \* search requests sent and not answered
  greetInflight,    \* greeting requests sent and not answered
  nIssued,          \* search requests sent so far
  nTriggers,        \* searches asked for: the mount search, Enter, clicks
  nEffectSearches,  \* searches the keyword effect has issued
  strictMode,       \* the build replays mount effects (React strict mode)
  lastArrival,      \* the answer handled last, None before the first
  embedInput,       \* the argument generateEmbedUrl is called with
  embedOutput       \* what the call returned, NotCalled before it

panelVars ==
  << mounted, initialKeyword, query, error, loading, selectedTalk, logs,
     errorDetails, greeting, talks, inflight, greetInflight, nIssued,
     nTriggers, nEffectSearches, strictMode, lastArrival >>

embedVars == << embedInput, embedOutput >>

vars == << panelVars, embedVars >>

InitPanel ==
  /\ mounted = FALSE
  /\ initialKeyword = <<>>
  /\ query = <<>>
  /\ error = None
  /\ loading = FALSE
  /\ selectedTalk = None
  /\ logs = <<>>
  /\ errorDetails = <<>>
  /\ greeting = ""
  /\ talks = <<>>
  /\ inflight = {}
  /\ greetInflight = 0
  /\ nIssued = 0
  /\ nTriggers = 0
  /\ nEffectSearches = 0
  /\ strictMode \in BOOLEAN
  /\ lastArrival = None

\* The panel as constructed; generateEmbedUrl is not followed.
Init ==
  /\ InitPanel
  /\ embedInput = JsUndefined
  /\ embedOutput = NotCalled

(* ----------------------- performSearch: the request -------------------- *)

NewRequest_Raw(n, searchQuery) == [id |-> n, param |-> searchQuery]

\* The request axios.get sends: the n-th one, with the query URL-encoded.
NewRequest(n, searchQuery) ==
  [id |-> n, param |-> encodeURIComponent(searchQuery)]

\* performSearch up to the axios.get call.
PerformSearch(searchQuery) ==
  /\ loading' = TRUE
  /\ error' = None
  /\ inflight' = inflight \cup {NewRequest(nIssued + 1, searchQuery)}
  /\ nIssued' = nIssued + 1

(* ---------------------------- mount effects ---------------------------- *)

InitialKeywordUnset_Always(ref) == TRUE

\* The keyword effect's guard.
InitialKeywordUnset(ref) == ref = <<>>

\* Both mount effects, run once, or twice in a row when React's strict mode
\* replays them; draw1 and draw2 are the random numbers of the two runs.
RunEffects(strict, draw1, draw2) ==
  LET fire1 == InitialKeywordUnset(initialKeyword)
      ref1  == IF fire1 THEN determineInitialKeyword(draw1) ELSE initialKeyword
      fire2 == strict /\ InitialKeywordUnset(ref1)
      ref2  == IF fire2 THEN determineInitialKeyword(draw2) ELSE ref1
      reqs  == (IF fire1 THEN {NewRequest(nIssued + 1, ref1)} ELSE {})
               \cup (IF fire2
                     THEN {NewRequest(nIssued + (IF fire1 THEN 2 ELSE 1), ref2)}
                     ELSE {})
  IN  /\ ~mounted
      /\ mounted' = TRUE
      /\ greetInflight' = greetInflight + (IF strict THEN 2 ELSE 1)
      /\ initialKeyword' = ref2
      /\ query' = IF fire1 \/ fire2 THEN ref2 ELSE query
      /\ loading' = IF fire1 \/ fire2 THEN TRUE ELSE loading
      /\ error' = IF fire1 \/ fire2 THEN None ELSE error
      /\ inflight' = inflight \cup reqs
      /\ nIssued' = nIssued + Cardinality(reqs)
      /\ nEffectSearches' = nEffectSearches + Cardinality(reqs)
      /\ nTriggers' = nTriggers + 1
      /\ UNCHANGED << selectedTalk, logs, errorDetails, greeting, talks, strictMode,
                     lastArrival >>
      /\ UNCHANGED embedVars

(* --------------------------- greeting answer --------------------------- *)

\* The answers to the greeting request: a body with a message, a body whose
\* message is the empty string, a body without a message field, a failure.
GreetingResponses ==
  { [ok |-> TRUE, message |-> Some("Hello from FastAPI")],
    [ok |-> TRUE, message |-> Some("")],
    [ok |-> TRUE, message |-> None],
    [ok |-> FALSE, message |-> None] }

\* greetingResponse.data && greetingResponse.data.message: the body has a
\* message and it is not the empty string.
HasMessage(resp) == resp.message # None /\ resp.message[1] # ""

GreetingText_FieldPresent(resp) ==
  IF ~resp.ok THEN "Failed to load greeting."
  ELSE IF resp.message # None THEN resp.message[1]
  ELSE "Unknown response format"

\* The argument of the setGreeting call the answer leads to.
GreetingText(resp) ==
  IF ~resp.ok THEN "Failed to load greeting."
  ELSE IF HasMessage(resp) THEN resp.message[1]
  ELSE "Unknown response format"

GreetingComplete(resp) ==
  /\ mounted
  /\ greetInflight > 0
  /\ greetInflight' = greetInflight - 1
  /\ greeting' = GreetingText(resp)
  /\ errorDetails' = IF resp.ok THEN errorDetails ELSE <<"Network Error">>
  /\ logs' = IF resp.ok THEN logs
             ELSE Append(logs, <<"Failed to fetch greeting: ", "Network Error">>)
  /\ UNCHANGED << mounted, initialKeyword, query, error, loading, selectedTalk,
                  talks, inflight, nIssued, nTriggers, nEffectSearches,
                  strictMode, lastArrival >>
  /\ UNCHANGED embedVars

(* ------------------------------ user events ---------------------------- *)

QueryAfter_Encoded(text) == encodeURIComponent(text)

\* The argument of handleInputChange's setQuery: e.target.value as it is.
QueryAfter(text) == text

\* handleInputChange.
handleInputChange(text) ==
  /\ mounted
  /\ query' = QueryAfter(text)
  /\ UNCHANGED << mounted, initialKeyword, error, loading, selectedTalk, logs,
                  errorDetails, greeting, talks, inflight, greetInflight,
                  nIssued, nTriggers, nEffectSearches, strictMode, lastArrival >>
  /\ UNCHANGED embedVars

Keys == {"Enter", "a"}

IsEnterKey(key) == key = "Enter"

\* handleKeyPress: a key goes down in the input.
handleKeyPress(key) ==
  /\ mounted
  /\ IF IsEnterKey(key)
     THEN /\ nIssued < MaxSearches
          /\ logs' = Append(logs, <<"Manual search initiated with keyword: ">> \o query)
          /\ PerformSearch(query)
     ELSE UNCHANGED << logs, loading, error, inflight, nIssued >>
  /\ nTriggers' = nTriggers + (IF key = "Enter" THEN 1 ELSE 0)
  /\ UNCHANGED << mounted, initialKeyword, query, selectedTalk, errorDetails,
                  greeting, talks, greetInflight, nEffectSearches, strictMode, lastArrival >>
  /\ UNCHANGED embedVars

SearchButtonDisabled_Never == FALSE

\* The Search button's disabled attribute.
SearchButtonDisabled == loading

\* The Search button's onClick; a disabled button takes no click.
SearchButtonClick ==
  /\ mounted
  /\ ~SearchButtonDisabled
  /\ nIssued < MaxSearches
  /\ logs' = Append(logs, <<"Manual search initiated with keyword: ">> \o query)
  /\ PerformSearch(query)
  /\ nTriggers' = nTriggers + 1
  /\ UNCHANGED << mounted, initialKeyword, query, selectedTalk, errorDetails,
                  greeting, talks, greetInflight, nEffectSearches, strictMode, lastArrival >>
  /\ UNCHANGED embedVars

ClickedTalk_Last(list, index) == list[Len(list)]

\* The talk the index-th result item's onClick closes over.
ClickedTalk(list, index) == list[index]

\* A click on the index-th result item (window.scrollTo changes no state).
SelectResult(index) ==
  /\ mounted
  /\ index \in 1..Len(talks)
  /\ selectedTalk' = Some(ClickedTalk(talks, index))
  /\ UNCHANGED << mounted, initialKeyword, query, error, loading, logs,
                  errorDetails, greeting, talks, inflight, greetInflight,
                  nIssued, nTriggers, nEffectSearches, strictMode, lastArrival >>
  /\ UNCHANGED embedVars

(* ----------------------- performSearch: the answer --------------------- *)

\* axios rejects the promise when there is no answer or the status is not
\* 2xx (its default validateStatus).
Rejected(resp) == resp.status \notin 200..299

\* The message of the error axios rejects with.
AxiosMessage(resp) ==
  IF resp.status = 0 THEN <<"Network Error">>
  ELSE <<"Request failed with status code ", ToString(resp.status)>>

\* The message of the error that reaches .catch, None when none does: the
\* rejection, the Error thrown for a status other than 200, or the TypeError
\* of calling sort on a body that is not an array.
CaughtError(resp) ==
  IF Rejected(resp) THEN Some(AxiosMessage(resp))
  ELSE IF resp.status # 200
  THEN Some(<<"Error: ", ToString(resp.status), " - ", StatusText(resp.status)>>)
  ELSE IF ~resp.data.isArray THEN Some(<<"data.sort is not a function">>)
  ELSE None

SortOutcomes_Overwrite(items) == { [i \in 1..Len(items) |-> items[1]] }

\* Permutations of a list: what sort with a random comparator can leave.
SortOutcomes(items) ==
  LET n == Len(items)
      Bijections == { f \in [1..n -> 1..n] : \A i, j \in 1..n : f[i] = f[j] => i = j }
  IN  { [i \in 1..n |-> items[f[i]]] : f \in Bijections }

\* The talk context's setter stores the list it is given.
setTalks(data) == data

FirstOrNull_Last(data) == IF Len(data) > 0 THEN Some(data[Len(data)]) ELSE None

FirstOrNull_KeepSelection(data) == IF Len(data) > 0 THEN Some(data[1]) ELSE selectedTalk

\* The talk the .then handler selects: data[0], or null for an empty list.
FirstOrNull(data) == IF Len(data) > 0 THEN Some(data[1]) ELSE None

\* The log lines the .then handler appends; data is the sorted list.
ThenLogs(resp, data) ==
  IF Rejected(resp) THEN <<>>
  ELSE IF resp.status # 200
  THEN << <<"Search failed. Status: ", ToString(resp.status), " - ",
            StatusText(resp.status)>> >>
  ELSE IF ~resp.data.isArray THEN <<>>
  ELSE << <<"Search results retrieved: ", ToString(Len(data)), " talks found.">> >>
       \o (IF Len(data) > 0 THEN << <<"For example: ", data[1].title>> >> ELSE <<>>)

FetchFailedMessage ==
  <<"Failed to fetch data. Please check if the backend server is running.">>

CatchError_Leak(message) == Some(message)

\* The .catch handler's setError.
CatchError(message) == Some(FetchFailedMessage)

ErrorAfter_ClearOnSuccess(prev, err) == IF err = None THEN None ELSE CatchError(err[1])

\* error after the answer is handled: .then calls setError nowhere, .catch
\* sets the message; err is the error that reached .catch, None when none did.
ErrorAfter(prev, err) == IF err = None THEN prev ELSE CatchError(err[1])

\* The log line the .catch handler appends.
CatchLogs(message) == << <<"Failed to fetch data: ">> \o message >>

TalksAfter_ClearOnFailure(prev, req, resp, data) ==
  IF CaughtError(resp) = None THEN setTalks(data) ELSE <<>>

TalksAfter_Fenced(prev, req, resp, data) ==
  IF CaughtError(resp) = None /\ req.id = nIssued THEN setTalks(data) ELSE prev

\* The talk list after the answer to req is handled: .then stores the sorted
\* list, .catch stores nothing.
TalksAfter(prev, req, resp, data) ==
  IF CaughtError(resp) = None THEN setTalks(data) ELSE prev

RequestsSentByCatch_Retry(req, resp) ==
  IF CaughtError(resp) # None /\ nIssued < MaxSearches
  THEN {[id |-> nIssued + 1, param |-> req.param]}
  ELSE {}

\* The requests the .catch handler sends: it calls axios nowhere.
RequestsSentByCatch(req, resp) == {}

LoadingAfter_SuccessOnly(resp) == IF CaughtError(resp) = None THEN FALSE ELSE loading

LoadingAfter_LastOnly(resp) == Cardinality(inflight) > 1

\* The .finally handler's setLoading.
LoadingAfter(resp) == FALSE

\* The promise chain of one request, run when its answer arrives: .then,
\* .catch and .finally run back to back, before any other event.
SearchComplete(req, resp, data) ==
  LET err == CaughtError(resp)
  IN  /\ mounted
      /\ req \in inflight
      /\ inflight' = (inflight \ {req}) \cup RequestsSentByCatch(req, resp)
      /\ nIssued' = nIssued + Cardinality(RequestsSentByCatch(req, resp))
      /\ talks' = TalksAfter(talks, req, resp, data)
      /\ selectedTalk' = IF err = None THEN FirstOrNull(data) ELSE selectedTalk
      /\ logs' = logs \o ThenLogs(resp, data)
                      \o (IF err = None THEN <<>> ELSE CatchLogs(err[1]))
      /\ error' = ErrorAfter(error, err)
      /\ errorDetails' = IF err = None THEN errorDetails ELSE err[1]
      /\ loading' = LoadingAfter(resp)
      /\ lastArrival' = Some([request |-> req, response |-> resp])
      /\ UNCHANGED << mounted, initialKeyword, query, greeting, greetInflight,
                      nTriggers, nEffectSearches, strictMode >>
      /\ UNCHANGED embedVars

(* --------------------------- the specification ------------------------- *)

Next ==
  \/ \E draw1, draw2 \in DrawSample : RunEffects(strictMode, draw1, draw2)
  \/ \E resp \in GreetingResponses : GreetingComplete(resp)
  \/ \E text \in TypedTexts : handleInputChange(text)
  \/ \E key \in Keys : handleKeyPress(key)
  \/ SearchButtonClick
  \/ \E index \in 1..Len(Catalogue) : SelectResult(index)
  \/ \E req \in inflight, resp \in Responses :
       \E data \in SortOutcomes(resp.data.items) : SearchComplete(req, resp, data)

\* The production build: the mount effects run once.
InitProduction == Init /\ ~strictMode

Spec == InitProduction /\ [][Next]_vars

\* The development build: React's strict mode replays the mount effects.
InitStrict == Init /\ strictMode

SpecStrict == InitStrict /\ [][Next]_vars

\* One call of generateEmbedUrl, as the iframe's src attribute makes.
CallGenerateEmbedUrl ==
  /\ embedOutput = NotCalled
  /\ embedOutput' = generateEmbedUrl(embedInput)
  /\ UNCHANGED << panelVars, embedInput >>

InitEmbed ==
  /\ InitPanel
  /\ ~strictMode
  /\ embedInput \in EmbedInputs
  /\ embedOutput = NotCalled

NextEmbed == CallGenerateEmbedUrl

\* generateEmbedUrl alone, called once on each argument.
SpecEmbed == InitEmbed /\ [][NextEmbed]_vars

\* The mount with every random number, and the answers to its requests.
NextMount ==
  \/ \E draw1, draw2 \in Draws : RunEffects(strictMode, draw1, draw2)
  \/ \E resp \in GreetingResponses : GreetingComplete(resp)
  \/ \E req \in inflight, resp \in Responses :
       \E data \in SortOutcomes(resp.data.items) : SearchComplete(req, resp, data)

\* Either build, mounted with any keyword, no user event after it.
SpecMount == Init /\ [][NextMount]_vars

\* The production build when every request sent is answered in the end.
SpecLive ==
  Spec /\ \A id \in 1..MaxSearches :
            WF_vars(\E req \in inflight, resp \in Responses :
                      \E data \in SortOutcomes(resp.data.items) :
                        req.id = id /\ SearchComplete(req, resp, data))

(* ------------------------------ the claims ----------------------------- *)

\* The step handled the answer of a request (each request has its own id).
AnswerHandled == lastArrival' # lastArrival

\* The answer a had status 200 and a list as its body.
AnsweredWithList(a) == a.response.status = 200 /\ a.response.data.isArray

\* The answer a was a status other than 200, or no answer at all.
AnsweredWithFailure(a) == a.response.status # 200

\* How many times x occurs in the list.
Count(list, x) == Cardinality({ i \in DOMAIN list : list[i] = x })

\* The two lists hold the same elements, each as many times.
SameElements(a, b) ==
  /\ Len(a) = Len(b)
  /\ \A i \in DOMAIN a : Count(a, a[i]) = Count(b, a[i])

\* C1: once search(query) has been invoked with a non-empty query, the answer
\* of that request is handled in the end and loading is false right after,
\* whatever the answer (status 200, another status, no answer), given that
\* every request is answered in the end.
C1_LoadingEventuallyFalse ==
  \A id \in 1..MaxSearches :
    (\E req \in inflight : req.id = id /\ req.param # <<>>)
      ~> (/\ lastArrival # None
          /\ lastArrival[1].request.id = id
          /\ ~loading)

\* C1's case: a search with a non-empty query got no answer (a transport
\* failure), its promise chain has run and loading is false.
C1_Witness ==
  /\ lastArrival # None
  /\ lastArrival[1].request.param # <<>>
  /\ lastArrival[1].response.status = 0
  /\ inflight = {}
  /\ ~loading

\* C2: right after an answer with status 200 and list L is handled, results
\* has the length of L, selected is the first stored result when L is not
\* empty, and selected is none when L is empty.
C2_SuccessStoresList ==
  [][ (AnswerHandled /\ AnsweredWithList(lastArrival'[1]))
      => LET L == lastArrival'[1].response.data.items
         IN  /\ Len(talks') = Len(L)
             /\ (L # <<>> => selectedTalk' = Some(talks'[1]))
             /\ (L = <<>> => selectedTalk' = None) ]_vars

\* C2's case: a two-element list was answered, stored in the other order, and
\* the first stored talk is selected.
C2_Witness ==
  /\ lastArrival # None
  /\ AnsweredWithList(lastArrival[1])
  /\ Len(lastArrival[1].response.data.items) = 2
  /\ talks # lastArrival[1].response.data.items
  /\ Len(talks) = 2
  /\ selectedTalk = Some(talks[1])

\* C3: handling an answer with a status other than 200, or a transport
\* failure, leaves the results list as it was: same elements, same order.
C3_FailureKeepsResults ==
  [][ (AnswerHandled /\ AnsweredWithFailure(lastArrival'[1])) => talks' = talks ]_vars

\* C3's case: results from an earlier search are on display while the answer
\* handled last was a failure.
C3_Witness ==
  /\ lastArrival # None
  /\ AnsweredWithFailure(lastArrival[1])
  /\ Len(talks) = 2

C6_FailureReported ==
  [][ (AnswerHandled /\ AnsweredWithFailure(lastArrival'[1]))
      => LET resp == lastArrival'[1].response
             text == IF resp.status = 0 THEN <<"Network Error">>
                     ELSE IF resp.status \in 200..299
                     THEN <<"Error: ", ToString(resp.status), " - ", StatusText(resp.status)>>
                     ELSE <<"Request failed with status code ", ToString(resp.status)>>
         IN  /\ error' = Some(FetchFailedMessage)
             /\ errorDetails' = text
             /\ Len(logs') > Len(logs)
             /\ SubSeq(logs', 1, Len(logs)) = logs
             /\ logs'[Len(logs')] = <<"Failed to fetch data: ">> \o text ]_vars

\* C6's case: a 404 answer was handled: the fixed message is shown, the status
\* text is in errorDetails and the last log entry reports it.
C6_Witness ==
  /\ lastArrival # None
  /\ lastArrival[1].response.status = 404
  /\ error = Some(FetchFailedMessage)
  /\ errorDetails = <<"Request failed with status code ", "404">>
  /\ logs # <<>>
  /\ logs[Len(logs)] = <<"Failed to fetch data: ", "Request failed with status code ", "404">>

\* C7: once the panel is mounted the keyword effect has issued exactly one
\* search, and it stays one through keystrokes, selections, searches and
\* answers, also when strict mode replays the mount effects.
C7_InitialSearchOnce == mounted => nEffectSearches = 1

\* C7's case: strict mode replayed the effects, the user typed and searched,
\* an answer was handled, and the effect's search count is still one.
C7_Witness ==
  /\ strictMode
  /\ mounted
  /\ nEffectSearches = 1
  /\ nIssued = 2
  /\ lastArrival # None
  /\ query # initialKeyword

\* C8: a click on a displayed result item sets selected to that very item and
\* leaves the results list as it was.
C8_SelectSetsItem ==
  [][ \A index \in 1..Len(Catalogue) :
        SelectResult(index)
          => (selectedTalk' = Some(talks[index]) /\ talks' = talks) ]_vars

\* C8's case: the second of two different results is selected, which only a
\* click on it does.
C8_Witness ==
  /\ Len(talks) = 2
  /\ talks[1] # talks[2]
  /\ selectedTalk = Some(talks[2])

\* C9: nothing is retried: the search requests sent are as many as the
\* searches asked for (the mount search, Enter presses, Search clicks).
C9_NoRetry == nIssued = nTriggers

\* C9's case: the only search failed and no request is in flight after it.
C9_Witness ==
  /\ lastArrival # None
  /\ AnsweredWithFailure(lastArrival[1])
  /\ nIssued = 1
  /\ nTriggers = 1
  /\ inflight = {}

\* Every character of s is a word character.
IsWord(s) == \A i \in DOMAIN s : s[i] \in WordChars

\* u is https://www.ted.com/talks/<name> and nothing else, <name> a non-empty
\* run of word characters.
TalkPageForm(u) ==
  /\ Len(u) > Len(TedPrefix)
  /\ SubSeq(u, 1, Len(TedPrefix)) = TedPrefix
  /\ IsWord(SubSeq(u, Len(TedPrefix) + 1, Len(u)))

\* The talk-page prefix stands at position i of u with a word character
\* after it.
TalkPageAt(u, i) ==
  /\ i + Len(TedPrefix) <= Len(u)
  /\ SubSeq(u, i, i + Len(TedPrefix) - 1) = TedPrefix
  /\ u[i + Len(TedPrefix)] \in WordChars

\* C10 as stated: a URL of the form https://www.ted.com/talks/<name> gives
\* https://embed.ted.com/talks/<name>?subtitle=en, every other URL comes back
\* unchanged, and undefined gives the empty string.
C10_Original ==
  embedOutput # NotCalled
    => /\ embedInput = JsUndefined => embedOutput = JsString(<<>>)
       /\ embedInput.type = "string"
            => IF TalkPageForm(embedInput.chars)
               THEN embedOutput =
                      JsString(EmbedPrefix
                               \o SubSeq(embedInput.chars, Len(TedPrefix) + 1,
                                         Len(embedInput.chars))
                               \o EmbedSuffix)
               ELSE embedOutput = embedInput

\* C10, amended: a URL that holds https://www.ted.com/talks/ followed by a
\* word character gives https://embed.ted.com/talks/<name>?subtitle=en, <name>
\* being the longest run of word characters after the first such place (what
\* stands before that place and after the name is dropped); every other URL
\* comes back unchanged; undefined gives the empty string.
C10_EmbedUrl ==
  embedOutput # NotCalled
    => /\ embedInput = JsUndefined => embedOutput = JsString(<<>>)
       /\ embedInput.type = "string"
            => LET u == embedInput.chars
                   places == { i \in 1..Len(u) : TalkPageAt(u, i) }
               IN  IF places = {} THEN embedOutput = embedInput
                   ELSE \E i \in places, n \in 1..Len(u) :
                          LET from == i + Len(TedPrefix)
                          IN  /\ \A j \in places : i <= j
                              /\ from + n - 1 <= Len(u)
                              /\ IsWord(SubSeq(u, from, from + n - 1))
                              /\ (from + n > Len(u) \/ u[from + n] \notin WordChars)
                              /\ embedOutput =
                                   JsString(EmbedPrefix \o SubSeq(u, from, from + n - 1)
                                            \o EmbedSuffix)

\* C10's case: a URL with a character before the talk-page prefix and a hyphen
\* after the name came back as the embed URL of the name alone.
C10_Witness ==
  /\ embedInput = JsString(<<"x">> \o TedPrefix \o <<"a", "-">>)
  /\ embedOutput = JsString(EmbedPrefix \o <<"a">> \o EmbedSuffix)

\* The argument is a missing URL (undefined, null, the empty string) or a
\* value that is not a string.
MissingOrNonString(v) == v.type # "string" \/ v.chars = <<>>

\* C11 as stated: for every missing URL (undefined, null, the empty string) and
\* every value that is not a string (a number, an object), generateEmbedUrl
\* returns the empty string.
C11_Original ==
  (embedOutput # NotCalled /\ MissingOrNonString(embedInput))
    => embedOutput = JsString(<<>>)

\* C11's failing case: called with the number 5, generateEmbedUrl returned the
\* number 5, not the empty string.
C11_Witness ==
  /\ embedInput = JsNumber(5)
  /\ embedOutput = JsNumber(5)

\* What a greeting answer leaves alone: results, selected, loading, error.
GreetingFrame ==
  /\ talks' = talks
  /\ selectedTalk' = selectedTalk
  /\ loading' = loading
  /\ error' = error

\* The failure branch of the greeting answer: the fixed failure string, the
\* diagnostic text stored, one log entry appended.
GreetingFailureReported ==
  /\ greeting' = "Failed to load greeting."
  /\ errorDetails' = <<"Network Error">>
  /\ logs' = Append(logs, <<"Failed to fetch greeting: ", "Network Error">>)

\* C12 as stated: when the greeting answer is handled, a success body with a
\* message field sets greeting to that message, a success body without the
\* field sets it to the fixed fallback, a failure sets the fixed failure
\* string, stores the diagnostic text and appends a log entry; results,
\* selected, loading and error stay as they were.
C12_Original ==
  [][ \A resp \in GreetingResponses :
        GreetingComplete(resp)
          => /\ (resp.ok /\ resp.message # None) => greeting' = resp.message[1]
             /\ (resp.ok /\ resp.message = None) => greeting' = "Unknown response format"
             /\ ~resp.ok => GreetingFailureReported
             /\ GreetingFrame ]_vars

\* C12, amended: a success body whose message field is a non-empty string sets
\* greeting to that message; a success body without the field, or with the
\* empty string in it, sets greeting to the fixed fallback; a failure sets the
\* fixed failure string, stores the diagnostic text and appends a log entry;
\* results, selected, loading and error stay as they were.
C12_GreetingCompletion ==
  [][ \A resp \in GreetingResponses :
        GreetingComplete(resp)
          => /\ (resp.ok /\ resp.message # None /\ resp.message[1] # "")
                  => greeting' = resp.message[1]
             /\ (resp.ok /\ (resp.message = None \/ resp.message = Some("")))
                  => greeting' = "Unknown response format"
             /\ ~resp.ok => GreetingFailureReported
             /\ GreetingFrame ]_vars

\* C12's case: the greeting request failed after a search had put two results
\* on display: the failure string is shown, the failure is the last log entry,
\* and the results, the selection, loading and error are those of the search.
C12_Witness ==
  /\ greeting = "Failed to load greeting."
  /\ errorDetails = <<"Network Error">>
  /\ logs # <<>>
  /\ logs[Len(logs)] = <<"Failed to fetch greeting: ", "Network Error">>
  /\ Len(talks) = 2
  /\ selectedTalk = Some(talks[1])
  /\ ~loading
  /\ error = None

\* C13: once the panel is mounted every text, the empty one included, can be
\* typed; typing text sets query to exactly that text, sends no request and
\* leaves results, selected, loading, error and the log as they were.
C13_SetQueryOnly ==
  [][ /\ mounted => \A text \in TypedTexts : ENABLED handleInputChange(text)
      /\ \A text \in TypedTexts :
           handleInputChange(text)
             => /\ query' = text
                /\ inflight' = inflight
                /\ nIssued' = nIssued
                /\ talks' = talks
                /\ selectedTalk' = selectedTalk
                /\ loading' = loading
                /\ error' = error
                /\ logs' = logs ]_vars

\* C13's case: the user emptied the input while the mount search is still in
\* flight: query is the empty string, the one request is still the only one
\* and loading is still true.
C13_Witness ==
  /\ mounted
  /\ query = <<>>
  /\ nIssued = 1
  /\ Cardinality(inflight) = 1
  /\ loading
  /\ logs = <<>>

\* The step invoked search: one more request has been sent.
SearchInvoked == nIssued' = nIssued + 1

\* C14: every invocation of search (by the mount effect, by Enter, by the
\* Search button), whatever the state it is made in, sets loading to true and
\* error to none and sends exactly one request, which carries the URL-encoded
\* text searched for (the text query holds right after the step) and whose
\* answer is not handled in that step; it leaves results and selected as they
\* were, and results change only in a step that handles an answer.
C14_SearchIssuesOneRequest ==
  [][ /\ SearchInvoked
        => /\ loading' = TRUE
           /\ error' = None
           /\ \E req \in inflight' :
                /\ req \notin inflight
                /\ req.id = nIssued'
                /\ req.param = encodeURIComponent(query')
                /\ inflight' = inflight \cup {req}
           /\ lastArrival' = lastArrival
           /\ talks' = talks
           /\ selectedTalk' = selectedTalk
      /\ talks' # talks => AnswerHandled ]_vars

\* C14's case: the first search failed and left its error on display; the user
\* typed a&b and searched again: the new request carries a%26b and is in
\* flight, loading is true and the error is gone.
C14_Witness ==
  /\ lastArrival # None
  /\ lastArrival[1].request.id = 1
  /\ AnsweredWithFailure(lastArrival[1])
  /\ inflight = {[id |-> 2, param |-> <<"a","%","2","6","b">>]}
  /\ loading
  /\ error = None

\* C15: right after an answer with status 200 and list L is handled, results
\* is a permutation of L: as long as L, and every talk occurs in results as
\* many times as in L, so none is added, dropped or altered.
C15_ResultsPermutation ==
  [][ (AnswerHandled /\ AnsweredWithList(lastArrival'[1]))
      => LET L == lastArrival'[1].response.data.items
         IN  /\ Len(talks') = Len(L)
             /\ \A i \in DOMAIN L : Count(talks', L[i]) = Count(L, L[i])
             /\ \A i \in DOMAIN talks' : Count(L, talks'[i]) = Count(talks', talks'[i]) ]_vars

\* C15's case: the answer listed talk A before talk B and results holds B
\* before A: the same two talks, once each, in the other order.
C15_Witness ==
  /\ lastArrival # None
  /\ lastArrival[1].response.status = 200
  /\ lastArrival[1].response.data = ArrayBody(Catalogue)
  /\ talks = <<Catalogue[2], Catalogue[1]>>

\* C16: in every reachable state selected is none or one of the talks of the
\* current results list, whatever searches, answers (lists, failures) and
\* clicks on result items came before.
C16_SelectedInResults ==
  selectedTalk # None => \E i \in DOMAIN talks : talks[i] = selectedTalk[1]

\* C16's case: a search answered two talks, the user clicked the second, and a
\* later search failed: the clicked talk is still selected and still listed.
C16_Witness ==
  /\ lastArrival # None
  /\ lastArrival[1].request.id = 2
  /\ AnsweredWithFailure(lastArrival[1])
  /\ Len(talks) = 2
  /\ talks[1] # talks[2]
  /\ selectedTalk = Some(talks[2])

\* C17: handling the answer of any one request sets loading to false, also
\* when another request is still in flight; a search sets it to true, and
\* nothing but an answer makes it false again, so loading is sure to be true
\* only from a search to the first answer handled after it.
C17_FirstCompletionClearsLoading ==
  [][ /\ AnswerHandled => ~loading'
      /\ SearchInvoked => loading'
      /\ (loading /\ ~loading') => AnswerHandled ]_vars

\* C17's case: two requests were sent, the answer of one has been handled and
\* the other is still in flight, yet loading is false and the Search button
\* is not disabled.
C17_Witness ==
  /\ nIssued = 2
  /\ lastArrival # None
  /\ Cardinality(inflight) = 1
  /\ ~loading
  /\ ~SearchButtonDisabled

\* C18: handling an answer with status 200 and a list leaves error as it was;
\* error becomes none only in a step that invokes search, and takes a message
\* only in a step that handles an answer that is not such a list.
C18_SuccessKeepsError ==
  [][ /\ (AnswerHandled /\ AnsweredWithList(lastArrival'[1])) => error' = error
      /\ (error # None /\ error' = None) => SearchInvoked
      /\ (error' # None /\ error' # error)
           => (AnswerHandled /\ ~AnsweredWithList(lastArrival'[1])) ]_vars

\* C18's case: of two overlapping searches one failed and the other was
\* answered after it with two talks: the results are the new ones and the
\* error of the failed request is still on display.
C18_Witness ==
  /\ nIssued = 2
  /\ inflight = {}
  /\ lastArrival # None
  /\ AnsweredWithList(lastArrival[1])
  /\ Len(talks) = 2
  /\ error = Some(FetchFailedMessage)
  /\ ~loading

\* The keyword the claim gives for a draw: TED AI for 0, else the topic
\* keyword at the draw's place (the array's index draw - 1, counted from 0).
KeywordOfDraw(draw) == IF draw = 0 THEN TedAi ELSE TopicKeywords[draw]

\* C19: for every draw in 0..17 determineInitialKeyword returns a defined,
\* non-empty string: TED AI exactly when the draw is 0, else the topic keyword
\* at the draw's place among exactly 17, each topic keyword for exactly one
\* draw; and the mount effect with that draw stores the keyword, sets query to
\* it and sends the one initial request with it.
C19_InitialKeyword ==
  [][ /\ Len(TopicKeywords) = 17
      /\ Draws = 0..17
      /\ \A draw \in Draws :
           /\ draw = 0 \/ draw \in DOMAIN TopicKeywords
           /\ determineInitialKeyword(draw) = KeywordOfDraw(draw)
           /\ determineInitialKeyword(draw) # <<>>
           /\ determineInitialKeyword(draw) = TedAi <=> draw = 0
      /\ \A k \in DOMAIN TopicKeywords :
           Cardinality({ draw \in Draws : determineInitialKeyword(draw) = TopicKeywords[k] }) = 1
      /\ \A draw1, draw2 \in Draws :
           RunEffects(strictMode, draw1, draw2)
             => /\ initialKeyword' = KeywordOfDraw(draw1)
                /\ query' = KeywordOfDraw(draw1)
                /\ inflight' = {[id |-> 1, param |-> encodeURIComponent(KeywordOfDraw(draw1))]}
                /\ nIssued' = 1 ]_vars

\* C19's case: the draw was 17, the last one: the keyword is the 17th topic
\* keyword, partnership, query holds it and the initial request carries it.
C19_Witness ==
  /\ mounted
  /\ initialKeyword = <<"p","a","r","t","n","e","r","s","h","i","p">>
  /\ query = initialKeyword
  /\ inflight = {[id |-> 1, param |-> initialKeyword]}
  /\ loading

====
